---------------------------- MODULE Spec2Model ----------------------------
(***************************************************************************)
(* Model of the storage-and-search layer of mcp-cloudcustodian-documentation *)
(* (DocumentDatabase in database.py): the documents table, the FTS5 index  *)
(* documents_fts kept in step by the three triggers, the query sanitiser,  *)
(* and the SQLite connections through which callers read and write.        *)
(*                                                                         *)
(* Text is modelled as a sequence of one-character strings, so that the    *)
(* sanitiser, the FTS5 query lexer and the tokenizer work character by     *)
(* character as the code and the index do.  The character "NUL" stands for *)
(* U+0000.                                                                 *)
(***************************************************************************)
EXTENDS Integers, Sequences, FiniteSets, TLC

VARIABLES
    documents,        \* committed rows of table documents (a set of rows)
    documents_fts,    \* committed FTS5 index: [postings, docsize]
    sqlite_sequence,  \* AUTOINCREMENT high-water mark of documents.id
    clock,            \* CURRENT_TIMESTAMP
    ret,              \* the last finished call: its arguments and its result
    conn,             \* per caller: the open connection and its transaction
    query,            \* the raw query under test (query specification only)
    file,             \* the file under parse (parser specification only)
    indexer           \* the indexer's run (indexer specification only)

vars == <<documents, documents_fts, sqlite_sequence, clock, ret, conn, query,
          file, indexer>>

-----------------------------------------------------------------------------
(* Bounds of the model.                                                    *)

MaxParts == 3
MaxSeq == 3
MaxClock == 1

-----------------------------------------------------------------------------
(* Characters.                                                             *)

LowerLetters == <<"a","b","c","d","e","f","g","h","i","j","k","l","m",
                  "n","o","p","q","r","s","t","u","v","w","x","y","z">>
UpperLetters == <<"A","B","C","D","E","F","G","H","I","J","K","L","M",
                  "N","O","P","Q","R","S","T","U","V","W","X","Y","Z">>
DigitChars == {"0","1","2","3","4","5","6","7","8","9"}

LowerSet == {LowerLetters[i] : i \in 1..26}
UpperSet == {UpperLetters[i] : i \in 1..26}
AlnumSet == LowerSet \cup UpperSet \cup DigitChars

UpperMap == [c \in LowerSet |-> UpperLetters[CHOOSE i \in 1..26 : LowerLetters[i] = c]]
LowerMap == [c \in UpperSet |-> LowerLetters[CHOOSE i \in 1..26 : UpperLetters[i] = c]]

IsAlnum(c) == c \in AlnumSet
ToUpper(c) == IF c \in LowerSet THEN UpperMap[c] ELSE c
ToLower(c) == IF c \in UpperSet THEN LowerMap[c] ELSE c

UpperOf(s) == [i \in 1..Len(s) |-> ToUpper(s[i])]
LowerOf(s) == [i \in 1..Len(s) |-> ToLower(s[i])]

\* \w of Python's re: a letter, a digit or the underscore.
IsWordChar(c) == IsAlnum(c) \/ c = "_"

Quote == "\""

-----------------------------------------------------------------------------
(* DocumentDatabase._sanitise_query.                                       *)

\* fts5_special_chars = r'[.():*"]'
fts5_special_chars == {".", "(", ")", ":", "*", Quote}

HasSpecialChar(q) == \E i \in 1..Len(q) : q[i] \in fts5_special_chars

\* fts5_operators = re.compile(r"\b(AND|OR|NOT)\b", re.IGNORECASE)
OperatorWords == {<<"A","N","D">>, <<"O","R">>, <<"N","O","T">>}

\* Variant: the operator pattern compiled without re.IGNORECASE.
OperatorAt_case_sensitive(q, i, w) ==
    LET j == i + Len(w) - 1 IN
    /\ j <= Len(q)
    /\ SubSeq(q, i, j) = w
    /\ (i = 1 \/ ~IsWordChar(q[i - 1]))
    /\ (j = Len(q) \/ ~IsWordChar(q[j + 1]))

OperatorAt(q, i, w) ==
    LET j == i + Len(w) - 1 IN
    /\ j <= Len(q)
    /\ UpperOf(SubSeq(q, i, j)) = w
    /\ (i = 1 \/ ~IsWordChar(q[i - 1]))
    /\ (j = Len(q) \/ ~IsWordChar(q[j + 1]))

fts5_operators(q) == \E w \in OperatorWords : \E i \in 1..Len(q) : OperatorAt(q, i, w)

\* query.replace('"', '""')
RECURSIVE EscapeQuotes(_)
EscapeQuotes(q) ==
    IF q = <<>> THEN <<>>
    ELSE (IF Head(q) = Quote THEN <<Quote, Quote>> ELSE <<Head(q)>>)
         \o EscapeQuotes(Tail(q))

NeedsQuoting(q) == HasSpecialChar(q) \/ fts5_operators(q)

_sanitise_query(q) ==
    IF NeedsQuoting(q)
    THEN <<Quote>> \o EscapeQuotes(q) \o <<Quote>>
    ELSE q

-----------------------------------------------------------------------------
(* The FTS5 MATCH expression that search hands to documents_fts: the lexer *)
(* and grammar of the index's query language.  A MATCH argument is read as *)
(* a zero-terminated string.                                               *)

Fts5IsSpace(c) == c \in {" ", "\t", "\n", "\r"}

\* A bareword character of the query language.
Fts5IsBareword(c) == IsAlnum(c) \/ c = "_"

Fts5Punct(c) ==
    CASE c = "(" -> "LP"    [] c = ")" -> "RP"
      [] c = "{" -> "LCP"   [] c = "}" -> "RCP"
      [] c = ":" -> "COLON" [] c = "," -> "COMMA"
      [] c = "+" -> "PLUS"  [] c = "*" -> "STAR"
      [] c = "-" -> "MINUS" [] c = "^" -> "CARET"
      [] OTHER -> "NONE"

LexError == <<[k |-> "ERROR", s |-> <<>>, quoted |-> FALSE]>>

\* The end of the quoted string opening at z[i] (the index of its closing
\* quote), or 0 when it is unterminated; "" inside is a literal quote.
RECURSIVE StringEnd(_, _)
StringEnd(z, j) ==
    IF j > Len(z) \/ z[j] = "NUL" THEN 0
    ELSE IF z[j] = Quote
         THEN IF j + 1 <= Len(z) /\ z[j + 1] = Quote
              THEN StringEnd(z, j + 2)
              ELSE j
         ELSE StringEnd(z, j + 1)

\* The text of a quoted string with its "" pairs undone.
RECURSIVE Dequote(_)
Dequote(s) ==
    IF s = <<>> THEN <<>>
    ELSE IF Head(s) = Quote /\ Len(s) >= 2 /\ s[2] = Quote
         THEN <<Quote>> \o Dequote(SubSeq(s, 3, Len(s)))
         ELSE <<Head(s)>> \o Dequote(Tail(s))

RECURSIVE BarewordEnd(_, _)
BarewordEnd(z, j) ==
    IF j + 1 <= Len(z) /\ Fts5IsBareword(z[j + 1])
    THEN BarewordEnd(z, j + 1)
    ELSE j

Keyword(w) ==
    IF w = <<"A","N","D">> THEN "AND"
    ELSE IF w = <<"O","R">> THEN "OR"
    ELSE IF w = <<"N","O","T">> THEN "NOT"
    ELSE "STRING"

\* The tokens of z from position i on; a last token of kind ERROR marks a
\* character the language does not know or an unterminated string.
RECURSIVE Fts5Lex(_, _)
Fts5Lex(z, i) ==
    IF i > Len(z) \/ z[i] = "NUL" THEN <<>>
    ELSE IF Fts5IsSpace(z[i]) THEN Fts5Lex(z, i + 1)
    ELSE IF Fts5Punct(z[i]) # "NONE"
         THEN <<[k |-> Fts5Punct(z[i]), s |-> <<z[i]>>, quoted |-> FALSE]>>
              \o Fts5Lex(z, i + 1)
    ELSE IF z[i] = Quote
         THEN LET e == StringEnd(z, i + 1) IN
              IF e = 0 THEN LexError
              ELSE <<[k |-> "STRING", s |-> Dequote(SubSeq(z, i + 1, e - 1)),
                      quoted |-> TRUE]>> \o Fts5Lex(z, e + 1)
    ELSE IF Fts5IsBareword(z[i])
         THEN LET e == BarewordEnd(z, i)
                  w == SubSeq(z, i, e) IN
              <<[k |-> Keyword(w), s |-> w, quoted |-> FALSE]>>
              \o Fts5Lex(z, e + 1)
    ELSE LexError

Fts5Tokens(z) == Fts5Lex(z, 1)

K(t, i) == IF i >= 1 /\ i <= Len(t) THEN t[i].k ELSE "EOF"

\* The columns of documents_fts.
FtsColumns == <<"title", "description", "content">>
ColumnNames == {<<"t","i","t","l","e">>,
                <<"d","e","s","c","r","i","p","t","i","o","n">>,
                <<"c","o","n","t","e","n","t">>}

IsColumn(t, i) == K(t, i) = "STRING" /\ LowerOf(t[i].s) \in ColumnNames

(* The grammar, as the set of positions at which a phrase, nearset, ...    *)
(* starting at token i can end:                                            *)
(*   phrase   ::= STRING [STAR] | phrase PLUS STRING [STAR]                *)
(*   nearset  ::= phrase | CARET phrase                                    *)
(*              | NEAR LP phrase+ [COMMA STRING] RP                        *)
(*   colset   ::= [MINUS] STRING | [MINUS] LCP STRING+ RCP                 *)
(*   cnearset ::= nearset | colset COLON nearset                           *)
(*   exprlist ::= cnearset+                                                *)
(*   expr     ::= expr (AND|OR|NOT) expr | [colset COLON] LP expr RP       *)
(*              | exprlist                                                 *)
RECURSIVE PhraseFrom(_, _)
PhraseFrom(t, i) ==
    IF K(t, i) # "STRING" THEN {}
    ELSE LET j == IF K(t, i + 1) = "STAR" THEN i + 2 ELSE i + 1 IN
         {j} \cup (IF K(t, j) = "PLUS" THEN PhraseFrom(t, j + 1) ELSE {})

RECURSIVE NearPhrasesFrom(_, _)
NearPhrasesFrom(t, i) ==
    LET e == PhraseFrom(t, i) IN
    e \cup UNION {NearPhrasesFrom(t, j) : j \in e}

NearsetFrom(t, i) ==
    PhraseFrom(t, i)
    \cup (IF K(t, i) = "CARET" THEN PhraseFrom(t, i + 1) ELSE {})
    \cup (IF K(t, i) = "STRING" /\ K(t, i + 1) = "LP"
             /\ t[i].s = <<"N","E","A","R">> /\ ~t[i].quoted
          THEN UNION {(IF K(t, j) = "RP" THEN {j + 1} ELSE {})
                      \cup (IF K(t, j) = "COMMA" /\ K(t, j + 1) = "STRING"
                               /\ K(t, j + 2) = "RP"
                            THEN {j + 3} ELSE {})
                      : j \in NearPhrasesFrom(t, i + 2)}
          ELSE {})

RECURSIVE ColListFrom(_, _)
ColListFrom(t, i) ==
    IF IsColumn(t, i) THEN {i + 1} \cup ColListFrom(t, i + 1) ELSE {}

ColsetFrom(t, i) ==
    LET k == IF K(t, i) = "MINUS" THEN i + 1 ELSE i IN
    (IF IsColumn(t, k) THEN {k + 1} ELSE {})
    \cup (IF K(t, k) = "LCP"
          THEN {j + 1 : j \in {x \in ColListFrom(t, k + 1) : K(t, x) = "RCP"}}
          ELSE {})

CnearsetFrom(t, i) ==
    NearsetFrom(t, i)
    \cup UNION {IF K(t, j) = "COLON" THEN NearsetFrom(t, j + 1) ELSE {}
                : j \in ColsetFrom(t, i)}

RECURSIVE ExprlistFrom(_, _)
ExprlistFrom(t, i) ==
    LET e == CnearsetFrom(t, i) IN
    e \cup UNION {ExprlistFrom(t, j) : j \in e}

RECURSIVE ExprFrom(_, _)
RECURSIVE PrimaryFrom(_, _)
PrimaryFrom(t, i) ==
    ExprlistFrom(t, i)
    \cup (IF K(t, i) = "LP"
          THEN {j + 1 : j \in {x \in ExprFrom(t, i + 1) : K(t, x) = "RP"}}
          ELSE {})
    \cup UNION {IF K(t, j) = "COLON" /\ K(t, j + 1) = "LP"
                THEN {x + 1 : x \in {y \in ExprFrom(t, j + 2) : K(t, y) = "RP"}}
                ELSE {}
                : j \in ColsetFrom(t, i)}

ExprFrom(t, i) ==
    LET p == PrimaryFrom(t, i) IN
    p \cup UNION {IF K(t, j) \in {"AND", "OR", "NOT"}
                  THEN ExprFrom(t, j + 1) ELSE {}
                  : j \in p}

\* Whether the index accepts z as a MATCH expression (otherwise the query
\* raises sqlite3.OperationalError: a syntax error, "no such column", ...).
Fts5Accepts(z) ==
    LET t == Fts5Tokens(z) IN
    /\ (t = <<>> \/ t[Len(t)].k # "ERROR")
    /\ (Len(t) + 1) \in ExprFrom(t, 1)

-----------------------------------------------------------------------------
(* The tokenizer of documents_fts: tokenize='porter unicode61'.            *)

\* SQL NULL / Python None in a text column.
NULL == <<"NULL">>

\* unicode61 splits at every character that is not a letter or a digit.
RECURSIVE SplitWords(_, _)
SplitWords(text, cur) ==
    IF text = <<>> THEN (IF cur = <<>> THEN <<>> ELSE <<cur>>)
    ELSE IF IsAlnum(Head(text))
         THEN SplitWords(Tail(text), Append(cur, Head(text)))
         ELSE (IF cur = <<>> THEN <<>> ELSE <<cur>>) \o SplitWords(Tail(text), <<>>)

Words(text) == IF text = NULL THEN <<>> ELSE SplitWords(text, <<>>)

EndsWith(w, suf) ==
    Len(w) >= Len(suf) /\ SubSeq(w, Len(w) - Len(suf) + 1, Len(w)) = suf

\* The porter stemmer, step 1a (plurals), on tokens of three characters or
\* more; the words of this model are ones its later steps leave alone.
PorterStem(w) ==
    IF Len(w) < 3 THEN w
    ELSE IF EndsWith(w, <<"s","s","e","s">>) THEN SubSeq(w, 1, Len(w) - 2)
    ELSE IF EndsWith(w, <<"i","e","s">>) THEN SubSeq(w, 1, Len(w) - 2)
    ELSE IF EndsWith(w, <<"s","s">>) THEN w
    ELSE IF EndsWith(w, <<"s">>) THEN SubSeq(w, 1, Len(w) - 1)
    ELSE w

\* The terms of a text, in order: split, case-folded, stemmed.
Tokenise(text) ==
    LET ws == Words(text) IN
    [i \in 1..Len(ws) |-> PorterStem(LowerOf(ws[i]))]

-----------------------------------------------------------------------------
(* The schema of _initialise_schema: table documents, the external-content *)
(* FTS5 table documents_fts over (title, description, content) keyed by    *)
(* documents.id, and the triggers that maintain it.                        *)

\* The index entries that the values (title, description, content) of row
\* rowid produce: one posting per term occurrence.
Postings(rowid, title, description, content) ==
    LET cols == <<Tokenise(title), Tokenise(description), Tokenise(content)>> IN
    UNION {{[rowid |-> rowid, col |-> FtsColumns[c], pos |-> i - 1,
             term |-> cols[c][i]] : i \in 1..Len(cols[c])} : c \in 1..3}

\* INSERT INTO documents_fts(rowid, title, description, content) VALUES ...
FtsInsert(fts, rowid, title, description, content) ==
    [postings |-> fts.postings \cup Postings(rowid, title, description, content),
     docsize  |-> fts.docsize \cup {rowid}]

\* Variant: a 'delete' that removes the postings of the given values from
\* the entry of every row.
FtsDelete_any_rowid(fts, rowid, title, description, content) ==
    [postings |-> {e \in fts.postings :
                     \A x \in Postings(rowid, title, description, content) :
                        <<e.col, e.pos, e.term>> # <<x.col, x.pos, x.term>>},
     docsize  |-> fts.docsize \ {rowid}]

\* INSERT INTO documents_fts(documents_fts, rowid, ...) VALUES ('delete', ...):
\* removes the postings that the given values produce.
FtsDelete(fts, rowid, title, description, content) ==
    [postings |-> fts.postings \ Postings(rowid, title, description, content),
     docsize  |-> fts.docsize \ {rowid}]

\* CREATE TRIGGER documents_ai AFTER INSERT ON documents
documents_ai(fts, new) ==
    FtsInsert(fts, new.id, new.title, new.description, new.content)

\* CREATE TRIGGER documents_ad AFTER DELETE ON documents
documents_ad(fts, old) ==
    FtsDelete(fts, old.id, old.title, old.description, old.content)

\* Variant: the update trigger without its 'delete' of the old values.
documents_au_without_delete(fts, old, new) ==
    FtsInsert(fts, new.id, new.title, new.description, new.content)

\* Variant: the update trigger without its insert of the new values.
documents_au_without_insert(fts, old, new) ==
    FtsDelete(fts, old.id, old.title, old.description, old.content)

\* CREATE TRIGGER documents_au AFTER UPDATE ON documents
documents_au(fts, old, new) ==
    FtsInsert(FtsDelete(fts, old.id, old.title, old.description, old.content),
              new.id, new.title, new.description, new.content)

\* A row event awaiting its trigger: [type, old, new].
FireTrigger(fts, ev) ==
    CASE ev.type = "insert" -> documents_ai(fts, ev.new)
      [] ev.type = "delete" -> documents_ad(fts, ev.old)
      [] ev.type = "update" -> documents_au(fts, ev.old, ev.new)

RECURSIVE FireTriggers(_, _)
FireTriggers(fts, events) ==
    IF events = {} THEN fts
    ELSE LET ev == CHOOSE e \in events : TRUE IN
         FireTriggers(FireTrigger(fts, ev), events \ {ev})

EmptyFts == [postings |-> {}, docsize |-> {}]
EmptyDb == [documents |-> {}, documents_fts |-> EmptyFts, sqlite_sequence |-> 0]

MaxOf(S) == IF S = {} THEN 0 ELSE CHOOSE x \in S : \A y \in S : y <= x

\* id INTEGER PRIMARY KEY AUTOINCREMENT: one more than the largest id ever
\* handed out; the statement takes an id whether it inserts or updates.
NextRowId(db) ==
    MaxOf({db.sqlite_sequence} \cup {r.id : r \in db.documents}) + 1

\* The rows that conflict with doc on the UNIQUE column path.
ConflictRows(rows, doc) == {r \in rows : r.path = doc.path}

InsertedRow(id, doc, now) ==
    [id |-> id, path |-> doc.path, title |-> doc.title,
     description |-> doc.description, section |-> doc.section,
     url |-> doc.url, content |-> doc.content,
     created_at |-> now, updated_at |-> now]

\* Variant: an update that leaves the content column out of its SET list.
UpdatedRow_without_content(old, doc, now) ==
    [old EXCEPT !.title = doc.title, !.description = doc.description,
                !.section = doc.section, !.url = doc.url, !.updated_at = now]

\* Variant: an update that also resets created_at (INSERT OR REPLACE style).
UpdatedRow_resets_created_at(old, doc, now) ==
    [old EXCEPT !.title = doc.title, !.description = doc.description,
                !.section = doc.section, !.url = doc.url,
                !.content = doc.content, !.created_at = now,
                !.updated_at = now]

\* ON CONFLICT(path) DO UPDATE SET title = excluded.title, ...,
\*                                 updated_at = CURRENT_TIMESTAMP
UpdatedRow(old, doc, now) ==
    [old EXCEPT !.title = doc.title, !.description = doc.description,
                !.section = doc.section, !.url = doc.url,
                !.content = doc.content, !.updated_at = now]

\* The row part of the INSERT ... ON CONFLICT statement of upsert_document:
\* the new rows, the new sequence value and the row events for the triggers.
UpsertRows(db, doc, now) ==
    LET hit == ConflictRows(db.documents, doc)
        id  == NextRowId(db) IN
    IF hit = {}
    THEN [documents |-> db.documents \cup {InsertedRow(id, doc, now)},
          sqlite_sequence |-> id,
          events |-> {[type |-> "insert", old |-> InsertedRow(id, doc, now),
                       new |-> InsertedRow(id, doc, now)]}]
    ELSE [documents |-> (db.documents \ hit)
                        \cup {UpdatedRow(r, doc, now) : r \in hit},
          sqlite_sequence |-> id,
          events |-> {[type |-> "update", old |-> r,
                       new |-> UpdatedRow(r, doc, now)] : r \in hit}]

\* The whole statement: the row write and the triggers it fires.
UpsertStatement(db, doc, now) ==
    LET w == UpsertRows(db, doc, now) IN
    [documents |-> w.documents,
     documents_fts |-> FireTriggers(db.documents_fts, w.events),
     sqlite_sequence |-> w.sqlite_sequence]

\* DELETE FROM documents: every row goes, and documents_ad fires per row.
DeleteRows(db) ==
    [documents |-> {},
     sqlite_sequence |-> db.sqlite_sequence,
     events |-> {[type |-> "delete", old |-> r, new |-> r] : r \in db.documents}]

DeleteStatement(db) ==
    LET w == DeleteRows(db) IN
    [documents |-> w.documents,
     documents_fts |-> FireTriggers(db.documents_fts, w.events),
     sqlite_sequence |-> w.sqlite_sequence]

-----------------------------------------------------------------------------
(* DocumentDatabase.search: the MATCH against documents_fts joined with    *)
(* documents, ordered by bm25 and cut to the limit.                        *)

\* The terms of the phrase whose first STRING is token i (STRING [STAR]
\* (PLUS STRING [STAR])*), and the token after it.
RECURSIVE PhraseTerms(_, _)
PhraseTerms(t, i) ==
    LET j   == IF K(t, i + 1) = "STAR" THEN i + 2 ELSE i + 1
        own == Tokenise(t[i].s) IN
    IF K(t, j) = "PLUS" /\ K(t, j + 1) = "STRING"
    THEN LET rest == PhraseTerms(t, j + 1) IN
         [terms |-> own \o rest.terms, next |-> rest.next]
    ELSE [terms |-> own, next |-> j]

\* The phrases of an accepted expression made of phrases only, which are
\* implicitly ANDed.  (Whatever holds a colon, a parenthesis, a star or an
\* operator word reaches the index as one quoted string.)
RECURSIVE PhraseList(_, _)
PhraseList(t, i) ==
    IF i > Len(t) THEN <<>>
    ELSE IF K(t, i) = "CARET" /\ K(t, i + 1) = "STRING"
         THEN LET p == PhraseTerms(t, i + 1) IN
              <<[first |-> TRUE, terms |-> p.terms]>> \o PhraseList(t, p.next)
    ELSE IF K(t, i) = "STRING"
         THEN LET p == PhraseTerms(t, i) IN
              <<[first |-> FALSE, terms |-> p.terms]>> \o PhraseList(t, p.next)
    ELSE PhraseList(t, i + 1)

\* Where phrase ph occurs in the index entry of rowid: (column, position).
PhraseHits(fts, rowid, ph) ==
    LET starts == {q \in fts.postings : q.rowid = rowid /\ q.term = ph.terms[1]} IN
    {<<q.col, q.pos>> : q \in
        {q \in starts :
            /\ ph.first => q.pos = 0
            /\ \A k \in 2..Len(ph.terms) :
                  [rowid |-> rowid, col |-> q.col, pos |-> q.pos + k - 1,
                   term |-> ph.terms[k]] \in fts.postings}}

\* Phrases without a term are dropped; an expression left without any
\* phrase matches nothing.
RealPhrases(z) ==
    LET ps == PhraseList(Fts5Tokens(z), 1) IN
    {ps[i] : i \in {j \in 1..Len(ps) : ps[j].terms # <<>>}}

MatchRowids(fts, ps) ==
    IF ps = {} THEN {}
    ELSE {id \in {q.rowid : q \in fts.postings} :
             \A ph \in ps : PhraseHits(fts, id, ph) # {}}

\* bm25(documents_fts, 5.0, 2.0, 1.0): the column weights.
ColumnWeight(col) ==
    CASE col = "title" -> 5 [] col = "description" -> 2 [] col = "content" -> 1

RECURSIVE SumWeights(_)
SumWeights(hits) ==
    IF hits = {} THEN 0
    ELSE LET h == CHOOSE x \in hits : TRUE IN
         ColumnWeight(h[1]) + SumWeights(hits \ {h})

RECURSIVE SumOver(_, _, _)
SumOver(fts, rowid, ps) ==
    IF ps = {} THEN 0
    ELSE LET ph == CHOOSE x \in ps : TRUE IN
         SumWeights(PhraseHits(fts, rowid, ph)) + SumOver(fts, rowid, ps \ {ph})

\* The raw rank: an integer stand-in for bm25, negative, and the more
\* negative the more weighted occurrences the row has.
Bm25(fts, rowid, ps) == 0 - SumOver(fts, rowid, ps)

Abs(x) == IF x < 0 THEN 0 - x ELSE x

\* Python truthiness of the section argument: None and "" are falsy.
NoSection == "<None>"
Truthy(section) == section # NoSection /\ section # ""

\* FROM documents_fts JOIN documents d ON documents_fts.rowid = d.id
\* WHERE documents_fts MATCH ? [AND d.section = ?]
\* What the MATCH finds in the index: the rowids with their raw rank.
Matched(fts, ps) ==
    {[rowid |-> id, score |-> Bm25(fts, id, ps)] : id \in MatchRowids(fts, ps)}

\* The join with documents and the section filter: [row, score].
Joined(rows, matched, section) ==
    {[row |-> p[1], score |-> p[2].score] :
        p \in {x \in rows \X matched :
                  /\ x[1].id = x[2].rowid
                  /\ Truthy(section) => x[1].section = section}}

Selected(db, ps, section) ==
    Joined(db.documents, Matched(db.documents_fts, ps), section)

\* Variant: ORDER BY score DESC.
RECURSIVE OrderByScore_descending(_)
OrderByScore_descending(rows) ==
    IF rows = {} THEN <<>>
    ELSE LET r == CHOOSE x \in rows : \A y \in rows :
                     \/ x.score > y.score
                     \/ (x.score = y.score /\ x.row.id <= y.row.id)
         IN <<r>> \o OrderByScore_descending(rows \ {r})

\* ORDER BY score: ascending raw rank (ties by rowid).
RECURSIVE OrderByScore(_)
OrderByScore(rows) ==
    IF rows = {} THEN <<>>
    ELSE LET r == CHOOSE x \in rows : \A y \in rows :
                     \/ x.score < y.score
                     \/ (x.score = y.score /\ x.row.id <= y.row.id)
         IN <<r>> \o OrderByScore(rows \ {r})

\* Variant: a LIMIT that stops one row early.
Limit_one_short(rows, limit) ==
    IF limit < 0 \/ limit > Len(rows) THEN rows ELSE SubSeq(rows, 1, limit - 1)

\* LIMIT ?: a negative limit is no limit.
Limit(rows, limit) ==
    IF limit < 0 \/ limit >= Len(rows) THEN rows ELSE SubSeq(rows, 1, limit)

\* score=abs(row["score"])
SearchResult(r) ==
    [path |-> r.row.path, title |-> r.row.title, url |-> r.row.url,
     section |-> r.row.section, score |-> Abs(r.score)]

PyNone == [none |-> TRUE]
OperationalError == "sqlite3.OperationalError"

\* sanitised_query = self._sanitise_query(query), and what the index makes
\* of it: whether it accepts the expression, and the phrases to match.
Prepare(q) ==
    LET z == _sanitise_query(q) IN
    [sanitised |-> z, accepted |-> Fts5Accepts(z),
     phrases |-> IF Fts5Accepts(z) THEN RealPhrases(z) ELSE {}]

\* ORDER BY score LIMIT ?, and the SearchResult list built from the rows.
Results(selected, limit) ==
    LET rows == Limit(OrderByScore(selected), limit) IN
    [i \in 1..Len(rows) |-> SearchResult(rows[i])]

\* What search(query, section, limit) gives on database db, for a query
\* prepared as m.
SearchWith(db, m, section, limit) ==
    IF ~m.accepted
    THEN [raised |-> OperationalError, val |-> <<>>]
    ELSE [raised |-> "", val |-> Results(Selected(db, m.phrases, section), limit)]

Document(r) ==
    [path |-> r.path, title |-> r.title, description |-> r.description,
     section |-> r.section, content |-> r.content, url |-> r.url]

\* SELECT * FROM documents WHERE path = ?; fetchone()
GetDocumentOn(db, path) ==
    LET hit == {r \in db.documents : r.path = path} IN
    IF hit = {} THEN PyNone
    ELSE Document(CHOOSE r \in hit : \A o \in hit : r.id <= o.id)

\* SELECT COUNT(*) FROM documents
CountOn(db) == Cardinality(db.documents)

-----------------------------------------------------------------------------
(* The inputs of the model: documents, paths, queries, call arguments.     *)

Paths == {"aws/s3.rst", "a.rst"}

\* Two versions of one path, differing in every field but the path, and a
\* document of another path.
Docs ==
    {[path |-> "aws/s3.rst", title |-> <<"S","3"," ","t","a","g","s">>,
      description |-> NULL, section |-> "aws", url |-> "docs/aws/s3.html",
      content |-> <<"t","a","g"," ","o","p","s">>],
     [path |-> "aws/s3.rst", title |-> <<"T","a","g"," ","a","n","d"," ","O","p","s">>,
      description |-> <<"T","a","g","s">>, section |-> "azure",
      url |-> "docs/azure/s3.html",
      content |-> <<"S","3"," ","o","r"," ","E","C","2">>],
     [path |-> "a.rst", title |-> <<"S","3"," ","O","p","s">>,
      description |-> <<"S","3"," ","t","a","g","s">>, section |-> "root",
      url |-> "docs/a.html", content |-> <<"a","n","d">>]}

\* The words of a text as written (before case folding and stemming).
WordSet(text) == LET ws == Words(text) IN {ws[i] : i \in 1..Len(ws)}

\* Queries of the search calls: every word of every title, and a query the
\* index rejects.
SearchQueries ==
    UNION {WordSet(d.title) : d \in Docs} \cup {<<"a","-","b">>}

\* The prepared form of each of these queries (it depends on the query alone).
Prepared == [q \in SearchQueries |-> Prepare(q)]

\* What search(query, section, limit) gives on database db.
SearchOn(db, q, section, limit) ==
    SearchWith(db, IF q \in SearchQueries THEN Prepared[q] ELSE Prepare(q),
               section, limit)

\* (section, limit) of the search calls.
SearchArgs == {<<NoSection, 1>>, <<NoSection, 2>>, <<"aws", 2>>}

Db == [documents |-> documents, documents_fts |-> documents_fts,
       sqlite_sequence |-> sqlite_sequence]

NoCall == [op |-> "none", args |-> <<>>, raised |-> "", val |-> PyNone]

\* No file is being parsed.
NoFile == [none |-> TRUE]

\* The indexer before its first run: no call in progress, no run made.
Idle ==
    [pc |-> "idle", op |-> "", runs |-> 0, run |-> <<>>, rest |-> <<>>,
     indexed_count |-> 0, before |-> {}]

Callers == {"w1", "w2", "r1"}
Closed == [pc |-> "closed"]

-----------------------------------------------------------------------------
(* The calls of DocumentDatabase, each made by a single caller with no     *)
(* other connection open: connect, execute, commit, close.                 *)

Init ==
    /\ documents = {}
    /\ documents_fts = EmptyFts
    /\ sqlite_sequence = 0
    /\ clock = 0
    /\ ret = NoCall
    /\ conn = [c \in Callers |-> Closed]
    /\ query = <<>>
    /\ file = NoFile
    /\ indexer = Idle

upsert_document(doc) ==
    /\ NextRowId(Db) <= MaxSeq
    /\ LET db == UpsertStatement(Db, doc, clock) IN
       /\ documents' = db.documents
       /\ documents_fts' = db.documents_fts
       /\ sqlite_sequence' = db.sqlite_sequence
    /\ ret' = [op |-> "upsert_document", args |-> <<doc>>, raised |-> "",
               val |-> PyNone]
    /\ UNCHANGED <<clock, conn, query, file, indexer>>

clear ==
    /\ LET db == DeleteStatement(Db) IN
       /\ documents' = db.documents
       /\ documents_fts' = db.documents_fts
       /\ sqlite_sequence' = db.sqlite_sequence
    /\ ret' = [op |-> "clear", args |-> <<>>, raised |-> "", val |-> PyNone]
    /\ UNCHANGED <<clock, conn, query, file, indexer>>

search(q, section, limit) ==
    /\ LET res == SearchOn(Db, q, section, limit) IN
       ret' = [op |-> "search", args |-> <<q, section, limit>>,
               raised |-> res.raised, val |-> res.val]
    /\ UNCHANGED <<documents, documents_fts, sqlite_sequence, clock, conn,
                   query, file, indexer>>

get_document(path) ==
    /\ ret' = [op |-> "get_document", args |-> <<path>>, raised |-> "",
               val |-> GetDocumentOn(Db, path)]
    /\ UNCHANGED <<documents, documents_fts, sqlite_sequence, clock, conn,
                   query, file, indexer>>

get_document_count ==
    /\ ret' = [op |-> "get_document_count", args |-> <<>>, raised |-> "",
               val |-> CountOn(Db)]
    /\ UNCHANGED <<documents, documents_fts, sqlite_sequence, clock, conn,
                   query, file, indexer>>

\* CURRENT_TIMESTAMP advances between calls.
Tick ==
    /\ clock < MaxClock
    /\ clock' = clock + 1
    /\ UNCHANGED <<documents, documents_fts, sqlite_sequence, ret, conn,
                   query, file, indexer>>

Next ==
    \/ \E doc \in Docs : upsert_document(doc)
    \/ clear
    \/ \E q \in SearchQueries, a \in SearchArgs : search(q, a[1], a[2])
    \/ \E path \in Paths : get_document(path)
    \/ get_document_count
    \/ Tick

Spec == Init /\ [][Next]_vars

-----------------------------------------------------------------------------
(* Properties of the storage layer under Spec.                             *)

DbNext == [documents |-> documents', documents_fts |-> documents_fts',
           sqlite_sequence |-> sqlite_sequence']

\* The step is a finished upsert_document(d): only an upsert takes an id.
UpsertStep(d) ==
    /\ sqlite_sequence' # sqlite_sequence
    /\ ret'.op = "upsert_document"
    /\ ret'.args = <<d>>

\* The step is a finished clear (or leaves everything as a clear left it).
ClearStep == ret'.op = "clear" /\ clock' = clock

RowsOf(rows, path) == {r \in rows : r.path = path}

\* The index that the rows of a table produce.
IndexOf(rows) ==
    [postings |-> UNION {Postings(r.id, r.title, r.description, r.content)
                         : r \in rows},
     docsize  |-> {r.id : r \in rows}]

\* The last call was an upsert that found its path present.
LastUpsertOverwrote ==
    /\ ret.op = "upsert_document"
    /\ \E r \in documents :
          r.path = ret.args[1].path /\ r.id < sqlite_sequence

(* C1: after any sequence of upsert_document and clear calls the index     *)
(* entries are exactly those of the current rows: one entry per row id,    *)
(* none without a row, no row without one, and the entry's title,          *)
(* description and content are the row's current values (nothing of an     *)
(* overwritten version remains).                                           *)
C1_IndexInSync == documents_fts = IndexOf(documents)

\* An upsert has just overwritten a row whose old and new values differ,
\* while another row is stored.
C1_Witness ==
    /\ LastUpsertOverwrote
    /\ Cardinality(documents) = 2
    /\ \E r \in documents : r.created_at < r.updated_at
    /\ documents_fts.postings # {}

(* C2: upsert_document is a whole-record replace-or-insert keyed by path:  *)
(* after it every path has at most one record, the count has not grown if  *)
(* the path was present (and has grown by one otherwise), get_document of  *)
(* the path gives exactly the document just upserted, and no later call    *)
(* other than an upsert of that path or a clear changes what get_document  *)
(* gives for it.                                                           *)
C2_UpsertPost(d) ==
    /\ \A p \in Paths : Cardinality(RowsOf(documents', p)) <= 1
    /\ GetDocumentOn(DbNext, d.path) = d
    /\ CountOn(DbNext) =
          CountOn(Db) + (IF ConflictRows(documents, d) = {} THEN 1 ELSE 0)

C2_WholeRecordUpsert ==
    [][/\ \A d \in Docs : UpsertStep(d) => C2_UpsertPost(d)
       /\ \A p \in Paths :
             (~ClearStep /\ ~(\E d \in Docs : d.path = p /\ UpsertStep(d)))
             => GetDocumentOn(DbNext, p) = GetDocumentOn(Db, p)]_vars

\* The second version of a path has replaced the first, and the count is 1.
C2_Witness ==
    /\ LastUpsertOverwrote
    /\ CountOn(Db) = 1
    /\ \E r \in documents : r.id = 1 /\ r.section = "azure"
    /\ GetDocumentOn(Db, ret.args[1].path) = ret.args[1]

(* C3: an upsert of a path that has a record leaves that record's          *)
(* created_at and row id as they were and sets its updated_at to the time  *)
(* of the upsert; an upsert of a path without a record inserts one new     *)
(* row, with a fresh id and created_at and updated_at both the current     *)
(* time.                                                                   *)
C3_UpsertStamps(d) ==
    LET old == ConflictRows(documents, d)
        new == RowsOf(documents', d.path) IN
    IF old # {}
    THEN /\ Cardinality(new) = Cardinality(old)
         /\ \A o \in old : \E n \in new :
               /\ n.id = o.id
               /\ n.created_at = o.created_at
               /\ n.updated_at = clock
    ELSE /\ Cardinality(new) = 1
         /\ \A n \in new :
               /\ n.created_at = clock
               /\ n.updated_at = clock
               /\ n.id \notin {r.id : r \in documents}

C3_IdentityAndTimestamps ==
    [][\A d \in Docs : UpsertStep(d) => C3_UpsertStamps(d)]_vars

\* A row was overwritten at a later time than it was created.
C3_Witness ==
    /\ LastUpsertOverwrote
    /\ \E r \in documents :
          /\ r.path = ret.args[1].path
          /\ r.created_at = 0
          /\ r.updated_at = 1

\* Every read of database db comes back empty.
AllReadsEmpty(db) ==
    /\ CountOn(db) = 0
    /\ \A p \in Paths : GetDocumentOn(db, p) = PyNone
    /\ \A q \in SearchQueries, a \in SearchArgs :
          SearchOn(db, q, a[1], a[2]) = [raised |-> "", val |-> <<>>]

\* The index entry of the given rows: their postings and document sizes.
EntryOf(fts, rows) ==
    LET ids == {r.id : r \in rows} IN
    [postings |-> {e \in fts.postings : e.rowid \in ids},
     docsize  |-> fts.docsize \cap ids]

\* The part of the index that belongs to none of the given rows.
EntriesBeside(fts, rows) ==
    LET ids == {r.id : r \in rows} IN
    [postings |-> {e \in fts.postings : e.rowid \notin ids},
     docsize  |-> fts.docsize \ ids]

\* The step leaves the store as it is.
StoreUnchanged == UNCHANGED <<documents, documents_fts, sqlite_sequence>>

(* C24: upsert_document(d) leaves the record of every path other than      *)
(* d.path (its fields, created_at, updated_at and row id) and that         *)
(* record's index entry as they were, and no index entry appears or goes   *)
(* outside the entry of d.path; a step after which the last call is        *)
(* get_document, search or get_document_count changes nothing stored.      *)
C24_UpsertTouchesOnlyItsPath ==
    [][/\ (sqlite_sequence' # sqlite_sequence /\ ret'.op = "upsert_document") =>
            LET d == ret'.args[1] IN
            /\ UpsertStep(d)
            /\ \A p \in Paths \ {d.path} :
                  /\ RowsOf(documents', p) = RowsOf(documents, p)
                  /\ EntryOf(documents_fts', RowsOf(documents', p))
                       = EntryOf(documents_fts, RowsOf(documents, p))
            /\ EntriesBeside(documents_fts', RowsOf(documents', d.path))
                 = EntriesBeside(documents_fts, RowsOf(documents, d.path))
       /\ ret'.op \in {"get_document", "search", "get_document_count"}
            => StoreUnchanged]_vars

\* An upsert has overwritten the record of one path at a later time while
\* the record of another path, written before, is stored with its index
\* entry.
C24_Witness ==
    /\ LastUpsertOverwrote
    /\ \E r \in documents, o \in documents :
          /\ r.path = ret.args[1].path
          /\ o.path # r.path
          /\ r.created_at < r.updated_at
          /\ o.updated_at < r.updated_at
          /\ EntryOf(documents_fts, {o}).postings # {}

(* C6: after clear, whatever was stored before, get_document_count gives   *)
(* 0, get_document gives None for every path and search gives an empty     *)
(* list for every query.                                                   *)
C6_ClearEmptiesEverything == [][ClearStep => AllReadsEmpty(DbNext)]_vars

(* C7: for every stored document, a search without section filter and with *)
(* a limit of at least the number of stored documents, for a word of that  *)
(* document's current title, returns the document.                         *)
C7_TitleWordFindsDocument ==
    (/\ ret.op = "search"
     /\ ret.args[2] = NoSection
     /\ ret.args[3] >= Cardinality(documents))
    => \A r \in documents :
          ret.args[1] \in WordSet(r.title)
          => /\ ret.raised = ""
             /\ \E i \in 1..Len(ret.val) :
                   ret.val[i].path = r.path /\ ret.val[i].title = r.title

\* A search for a title word returned both stored documents, one of them
\* overwritten since it was created.
C7_Witness ==
    /\ ret.op = "search"
    /\ ret.args[2] = NoSection
    /\ ret.raised = ""
    /\ Len(ret.val) = 2
    /\ Cardinality(documents) = 2
    /\ \E r \in documents :
          r.created_at < r.updated_at /\ ret.args[1] \in WordSet(r.title)

-----------------------------------------------------------------------------
(* Queries: _sanitise_query and search applied to raw queries, on a        *)
(* populated store.                                                        *)

\* The pieces raw queries are put together from: words, operator words in
\* several spellings, the characters of fts5_special_chars, and characters
\* the sanitiser does not look for.
Pieces ==
    {<<"t","a","g">>, <<"A","N","D">>, <<"o","r">>, <<"N","o","t">>,
     <<" ">>, <<".">>, <<"(">>, <<")">>, <<":">>, <<"*">>, <<Quote>>,
     <<"-">>, <<"_">>, <<"NUL">>}

RECURSIVE QueriesOf(_)
QueriesOf(n) ==
    IF n = 0 THEN {<<>>}
    ELSE LET shorter == QueriesOf(n - 1) IN
         shorter \cup {s \o p : s \in shorter, p \in Pieces}

Queries == QueriesOf(MaxParts)

\* limit: int = 10
DefaultLimit == 10

\* The store of the query specification: two documents upserted.
PopulatedDb ==
    LET d1 == CHOOSE d \in Docs : d.url = "docs/aws/s3.html"
        d2 == CHOOSE d \in Docs : d.url = "docs/a.html" IN
    UpsertStatement(UpsertStatement(EmptyDb, d1, 0), d2, 0)

InitQuery ==
    /\ query \in Queries
    /\ file = NoFile
    /\ indexer = Idle
    /\ documents = PopulatedDb.documents
    /\ documents_fts = PopulatedDb.documents_fts
    /\ sqlite_sequence = PopulatedDb.sqlite_sequence
    /\ clock = 0
    /\ ret = NoCall
    /\ conn = [c \in Callers |-> Closed]

sanitise_query ==
    /\ ret' = [op |-> "_sanitise_query", args |-> <<query, file, indexer>>, raised |-> "",
               val |-> _sanitise_query(query)]
    /\ UNCHANGED <<documents, documents_fts, sqlite_sequence, clock, conn,
                   query, file, indexer>>

NextQuery ==
    \/ sanitise_query
    \/ search(query, NoSection, DefaultLimit)

SpecQuery == InitQuery /\ [][NextQuery]_vars

-----------------------------------------------------------------------------
(* Properties of the sanitiser and of search under SpecQuery.              *)

\* The maximal runs of word characters (letters, digits, underscore) of q.
RECURSIVE WordRuns(_, _)
WordRuns(q, cur) ==
    IF q = <<>> THEN (IF cur = <<>> THEN {} ELSE {cur})
    ELSE IF IsAlnum(Head(q)) \/ Head(q) = "_"
         THEN WordRuns(Tail(q), Append(cur, Head(q)))
         ELSE (IF cur = <<>> THEN {} ELSE {cur}) \cup WordRuns(Tail(q), <<>>)

\* q holds one of . ( ) : * " or, as a whole word, AND, OR or NOT in any
\* letter case.
Triggered(q) ==
    \/ \E i \in 1..Len(q) : q[i] \in {".", "(", ")", ":", "*", Quote}
    \/ \E w \in WordRuns(q, <<>>) :
          UpperOf(w) \in {<<"A","N","D">>, <<"O","R">>, <<"N","O","T">>}

\* q with every double quote doubled, built from the right.
RECURSIVE Doubled(_)
Doubled(q) ==
    IF q = <<>> THEN <<>>
    ELSE LET n == Len(q) IN
         Doubled(SubSeq(q, 1, n - 1))
         \o (IF q[n] = Quote THEN <<Quote, Quote>> ELSE <<q[n]>>)

Quoted(q) == <<Quote>> \o Doubled(q) \o <<Quote>>

Hyphenated(q) == (\E i \in 1..Len(q) : q[i] = "-") /\ ~Triggered(q)

(* C9: _sanitise_query wraps every query that holds a hyphen in double     *)
(* quotes: for a hyphenated query with no other special character the      *)
(* result is the query enclosed in double quotes.                          *)
C9_HyphenatedQueryQuoted ==
    (ret.op = "_sanitise_query" /\ Hyphenated(ret.args[1]))
    => ret.val = <<Quote>> \o ret.args[1] \o <<Quote>>

(* C10: for every raw query holding one of . ( ) : * " or the word AND, OR *)
(* or NOT in any case, search on a populated store raises no index syntax  *)
(* error: the sanitised string is one well-formed quoted phrase and search *)
(* returns a list, possibly empty.                                         *)
C10_TriggeredQueryNeverRaises ==
    (ret.op = "search" /\ Triggered(ret.args[1]))
    => /\ ret.raised = ""
       /\ LET t == Fts5Tokens(_sanitise_query(ret.args[1])) IN
          Len(t) = 1 /\ t[1].k = "STRING" /\ t[1].quoted

\* q holds a hyphenated term: a hyphen between two word characters.
HasHyphenatedTerm(q) ==
    \E i \in 2..(Len(q) - 1) :
       q[i] = "-" /\ IsWordChar(q[i - 1]) /\ IsWordChar(q[i + 1])

(* C11: for every query that holds a hyphenated term, search on a          *)
(* populated store returns a list: it raises neither an index syntax error *)
(* nor a "no such column" error.                                           *)
C11_HyphenatedSearchReturnsList ==
    (ret.op = "search" /\ HasHyphenatedTerm(ret.args[1])) => ret.raised = ""

-----------------------------------------------------------------------------
(* Search arguments: search called with every kind of section and limit    *)
(* argument, on the stores that upsert_document and clear build.           *)

\* A query word that no document holds.
NoMatchQuery == <<"v","p","c">>

SearchCallQueries == SearchQueries \cup {NoMatchQuery}

\* (section, limit) of these search calls: no section, a section, the
\* empty string; limits above, at and below 1.
SearchCallArgs ==
    {<<NoSection, 1>>, <<NoSection, 2>>, <<"aws", 2>>, <<"azure", 1>>,
     <<"", 2>>, <<NoSection, 0>>, <<NoSection, -1>>}

NextSearch ==
    \/ \E doc \in Docs : upsert_document(doc)
    \/ clear
    \/ \E q \in SearchCallQueries, a \in SearchCallArgs : search(q, a[1], a[2])
    \/ \E path \in Paths : get_document(path)

SpecSearch == Init /\ [][NextSearch]_vars

-----------------------------------------------------------------------------
(* Properties of search results.                                           *)

\* The call that ret records is a search that returned a list.
SearchReturned == ret.op = "search" /\ ret.raised = ""

\* The rows that match the query of the recorded search, after its section
\* filter, each with its raw rank.
RetMatches ==
    LET q == ret.args[1] IN
    Selected(Db, (IF q \in SearchQueries THEN Prepared[q] ELSE Prepare(q)).phrases,
             ret.args[2])

RetPaths == {ret.val[i].path : i \in 1..Len(ret.val)}

Min(a, b) == IF a <= b THEN a ELSE b

(* C12: for every limit >= 1, a search with m matching documents (after    *)
(* the section filter) returns exactly min(limit, m) results, each a       *)
(* different matching document with its relevance, and no match left out   *)
(* is more relevant than a returned one.                                   *)
C12_LimitBound ==
    (SearchReturned /\ ret.args[3] >= 1)
    => /\ Len(ret.val) = Min(ret.args[3], Cardinality(RetMatches))
       /\ Cardinality(RetPaths) = Len(ret.val)
       /\ \A i \in 1..Len(ret.val) :
             \E x \in RetMatches :
                x.row.path = ret.val[i].path /\ Abs(x.score) = ret.val[i].score
       /\ \A x \in RetMatches :
             x.row.path \notin RetPaths
             => \A i \in 1..Len(ret.val) : Abs(x.score) <= ret.val[i].score

\* A search with limit 1 and two matches returned one result, and the match
\* left out is less relevant.
C12_Witness ==
    /\ SearchReturned
    /\ ret.args[3] = 1
    /\ Cardinality(RetMatches) = 2
    /\ Len(ret.val) = 1
    /\ \E x \in RetMatches :
          x.row.path \notin RetPaths /\ Abs(x.score) < ret.val[1].score

\* The error a rejected argument is reported with.
InvalidArgument == "ValueError"

(* C13: search called with a limit below 1 (zero or negative) reports an   *)
(* invalid-argument error to the caller instead of returning a list.       *)
C13_LimitBelowOneRejected ==
    (ret.op = "search" /\ ret.args[3] < 1) => ret.raised = InvalidArgument

(* C14: whenever a section filter is supplied to search (any string, the   *)
(* empty string included), every result has that section and every         *)
(* matching document of that section is returned up to the limit.          *)
C14_SectionFilterRestricts ==
    (SearchReturned /\ ret.args[2] # NoSection /\ ret.args[3] >= 1)
    => /\ \A i \in 1..Len(ret.val) : ret.val[i].section = ret.args[2]
       /\ LET q == ret.args[1]
              ps == (IF q \in SearchQueries THEN Prepared[q] ELSE Prepare(q)).phrases
              insection == {x \in Selected(Db, ps, NoSection) :
                              x.row.section = ret.args[2]} IN
          Len(ret.val) = Min(ret.args[3], Cardinality(insection))

(* C15: in every list that search returns, each score is non-negative and  *)
(* is the absolute value of the raw rank of its document, and the scores   *)
(* are in non-increasing order.                                            *)
C15_ScoresDescend ==
    SearchReturned
    => /\ \A i \in 1..Len(ret.val) :
             /\ ret.val[i].score >= 0
             /\ \E x \in RetMatches :
                   x.row.path = ret.val[i].path /\ x.score <= 0
                   /\ ret.val[i].score = 0 - x.score
       /\ \A i \in 1..Len(ret.val), j \in 1..Len(ret.val) :
             i < j => ret.val[i].score >= ret.val[j].score

\* A search returned two results, the first with a higher score.
C15_Witness ==
    /\ SearchReturned
    /\ Len(ret.val) = 2
    /\ ret.val[1].score > ret.val[2].score
    /\ ret.val[2].score > 0

(* C16: a lookup miss is a value: get_document on a path without a record  *)
(* returns None, and a search whose query matches no stored document (none *)
(* is stored, or the index finds none) returns an empty list; neither      *)
(* raises.                                                                 *)
C16_LookupMissIsValue ==
    /\ (ret.op = "get_document" /\ RowsOf(documents, ret.args[1]) = {})
       => (ret.raised = "" /\ ret.val = PyNone)
    /\ (ret.op = "search" /\ ret.args[3] >= 1 /\ documents = {})
       => (ret.raised = "" /\ ret.val = <<>>)
    /\ (SearchReturned /\ ret.args[3] >= 1 /\ RetMatches = {})
       => ret.val = <<>>

-----------------------------------------------------------------------------
(* Concurrent callers.  Every call opens its own connection                *)
(* (_get_connection); SQLite lets any number of connections read, one at a *)
(* time write, and none commit while another is in the middle of a read.   *)
(* A writer's changes stay in its own transaction until it commits.        *)

Writers == {"w1", "w2"}
Readers == {"r1"}

\* Queries of the concurrent search calls.
ConcQueries == {<<"t","a","g","s">>, <<"O","p","s">>}

InTransaction(c) == conn[c].pc \in {"rows", "executed"}
Reading(c) == conn[c].pc = "matching"

\* A database file on which a second connection may write while the first
\* is still inside its transaction.
WriteLockFree_unlocked(c) == TRUE

\* A database file on which a commit does not wait for the reads in progress.
NoReaderActive_unlocked(c) == TRUE

\* Whether caller c can take the write lock: no other connection holds it.
WriteLockFree(c) == \A o \in Callers \ {c} : ~InTransaction(o)

\* Whether the commit of c can take the exclusive lock: no other connection
\* is in the middle of a read.
NoReaderActive(c) == \A o \in Callers \ {c} : ~Reading(o)

\* conn.execute("INSERT INTO documents ... ON CONFLICT(path) DO UPDATE ..."):
\* the transaction begins and the row is written inside it.
ExecuteRows(c, doc) ==
    /\ conn[c].pc = "closed"
    /\ WriteLockFree(c)
    /\ NextRowId(Db) <= MaxSeq
    /\ LET w == UpsertRows(Db, doc, clock) IN
       conn' = [conn EXCEPT ![c] =
                  [pc |-> "rows", doc |-> doc, events |-> w.events,
                   tx |-> [documents |-> w.documents,
                           documents_fts |-> documents_fts,
                           sqlite_sequence |-> w.sqlite_sequence]]]
    /\ UNCHANGED <<documents, documents_fts, sqlite_sequence, clock, ret,
                   query, file, indexer>>

\* The same statement while another connection holds the write lock until
\* the busy timeout runs out: the call raises and the connection is closed.
ExecuteBusy(c, doc) ==
    /\ conn[c].pc = "closed"
    /\ ~WriteLockFree(c)
    /\ ret' = [op |-> "upsert_document", args |-> <<doc>>,
               raised |-> OperationalError, val |-> PyNone]
    /\ UNCHANGED <<documents, documents_fts, sqlite_sequence, clock, conn,
                   query, file, indexer>>

\* The triggers of the statement, inside the same transaction.
RunTriggers(c) ==
    /\ conn[c].pc = "rows"
    /\ conn' = [conn EXCEPT ![c].pc = "executed",
                            ![c].tx.documents_fts =
                                FireTriggers(conn[c].tx.documents_fts,
                                             conn[c].events)]
    /\ UNCHANGED <<documents, documents_fts, sqlite_sequence, clock, ret,
                   query, file, indexer>>

DatabaseError == "sqlite3.DatabaseError"

\* Variant: a failing trigger that leaves the row of the statement in the
\* database without its index entry.
TriggerFails_keeping_rows(c) ==
    /\ conn[c].pc = "rows"
    /\ documents' = conn[c].tx.documents
    /\ sqlite_sequence' = conn[c].tx.sqlite_sequence
    /\ conn' = [conn EXCEPT ![c] = Closed]
    /\ ret' = [op |-> "upsert_document", args |-> <<conn[c].doc>>,
               raised |-> DatabaseError, val |-> PyNone]
    /\ UNCHANGED <<documents_fts, clock, query, file, indexer>>

\* A trigger of the statement fails (the index cannot be written): SQLite
\* undoes the statement, execute raises, and 'finally: conn.close()' closes
\* the connection without a commit, which rolls the transaction back.
TriggerFails(c) ==
    /\ conn[c].pc = "rows"
    /\ conn' = [conn EXCEPT ![c] = Closed]
    /\ ret' = [op |-> "upsert_document", args |-> <<conn[c].doc>>,
               raised |-> DatabaseError, val |-> PyNone]
    /\ UNCHANGED <<documents, documents_fts, sqlite_sequence, clock,
                   query, file, indexer>>

\* conn.commit(); conn.close(): the transaction becomes the database.
Commit(c) ==
    /\ conn[c].pc = "executed"
    /\ NoReaderActive(c)
    /\ documents' = conn[c].tx.documents
    /\ documents_fts' = conn[c].tx.documents_fts
    /\ sqlite_sequence' = conn[c].tx.sqlite_sequence
    /\ conn' = [conn EXCEPT ![c] = Closed]
    /\ ret' = [op |-> "upsert_document", args |-> <<conn[c].doc>>,
               raised |-> "", val |-> PyNone]
    /\ UNCHANGED <<clock, query, file, indexer>>

\* conn.commit() while a reader keeps its lock until the busy timeout runs
\* out: commit raises, and closing the connection rolls the transaction back.
CommitBusy(c) ==
    /\ conn[c].pc = "executed"
    /\ ~NoReaderActive(c)
    /\ conn' = [conn EXCEPT ![c] = Closed]
    /\ ret' = [op |-> "upsert_document", args |-> <<conn[c].doc>>,
               raised |-> OperationalError, val |-> PyNone]
    /\ UNCHANGED <<documents, documents_fts, sqlite_sequence, clock,
                   query, file, indexer>>

\* search, first part: the statement starts and the MATCH reads the index.
SearchMatch(c, q, section, limit) ==
    /\ conn[c].pc = "closed"
    /\ LET m == IF q \in SearchQueries THEN Prepared[q] ELSE Prepare(q) IN
       /\ m.accepted
       /\ conn' = [conn EXCEPT ![c] =
                     [pc |-> "matching", q |-> q, section |-> section,
                      limit |-> limit,
                      matched |-> Matched(documents_fts, m.phrases)]]
    /\ UNCHANGED <<documents, documents_fts, sqlite_sequence, clock, ret,
                   query, file, indexer>>

\* search, second part: the join reads the rows, the statement ends and the
\* connection is closed.
SearchFetch(c) ==
    /\ conn[c].pc = "matching"
    /\ ret' = [op |-> "search",
               args |-> <<conn[c].q, conn[c].section, conn[c].limit>>,
               raised |-> "",
               val |-> Results(Joined(documents, conn[c].matched,
                                      conn[c].section), conn[c].limit)]
    /\ conn' = [conn EXCEPT ![c] = Closed]
    /\ UNCHANGED <<documents, documents_fts, sqlite_sequence, clock,
                   query, file, indexer>>

NextConc ==
    \/ \E c \in Writers, doc \in Docs : ExecuteRows(c, doc)
    \/ \E c \in Writers, doc \in Docs : ExecuteBusy(c, doc)
    \/ \E c \in Writers : RunTriggers(c)
    \/ \E c \in Writers : TriggerFails(c)
    \/ \E c \in Writers : Commit(c)
    \/ \E c \in Writers : CommitBusy(c)
    \/ \E c \in Readers, q \in ConcQueries : SearchMatch(c, q, NoSection, DefaultLimit)
    \/ \E c \in Readers : SearchFetch(c)
    \/ \E path \in Paths : get_document(path)
    \/ get_document_count

SpecConc == Init /\ [][NextConc]_vars

-----------------------------------------------------------------------------
(* Properties of the concurrent callers.                                   *)

\* The step ends a search that had read the index in an earlier step.
FetchStep(c) == conn[c].pc = "matching" /\ conn'[c].pc = "closed"

\* The step is the successful commit of the upsert of caller c.
CommitStep(c) ==
    /\ conn[c].pc = "executed"
    /\ conn'[c].pc = "closed"
    /\ ret'.raised = ""

(* C4: a read that runs while upserts are in progress never observes a     *)
(* half-applied upsert.  The rows and the index that get_document,         *)
(* get_document_count and search read agree at every moment, and a search  *)
(* whose index read and row read are separated by other callers' steps     *)
(* returns exactly what it would return if it read the database in one     *)
(* step: the row and the index entry it combines are from the same side of *)
(* every upsert.                                                           *)
C4_ReadsSeeWholeUpserts ==
    [][/\ documents_fts' = IndexOf(documents')
       /\ \A c \in Readers :
             FetchStep(c) =>
                ret'.val = SearchOn(Db, conn[c].q, conn[c].section,
                                    conn[c].limit).val]_vars

\* A search has returned the stored version of a path while a writer had
\* executed, and not committed, another version of the same path.
C4_Witness ==
    /\ ret.op = "search"
    /\ ret.raised = ""
    /\ Len(ret.val) > 0
    /\ \E w \in Writers :
          /\ conn[w].pc = "executed"
          /\ conn[w].doc.path = ret.val[1].path
          /\ conn[w].doc.title # ret.val[1].title
          /\ conn[w].tx.documents_fts # documents_fts

(* C5: concurrent upsert_document calls serialise.  Each commit leaves the *)
(* database exactly as the whole upsert, run alone on the database as it   *)
(* was just before the commit, would leave it; so the path has exactly one *)
(* record, and the record's title, description, section, url and content   *)
(* and its index entry are all those of the committing call, the last      *)
(* committed one.                                                          *)
C5_SamePathUpsertsSerialise ==
    [][\A c \in Writers :
          CommitStep(c) =>
             /\ DbNext = UpsertStatement(Db, conn[c].doc, clock)
             /\ Cardinality(RowsOf(documents', conn[c].doc.path)) = 1
             /\ GetDocumentOn(DbNext, conn[c].doc.path) = conn[c].doc
             /\ documents_fts' = IndexOf(documents')]_vars

\* Two upserts of one path have committed, the record is the second
\* call's, and a third upsert of the path is inside its transaction.
C5_Witness ==
    /\ ret.op = "upsert_document"
    /\ ret.raised = ""
    /\ sqlite_sequence = 2
    /\ Cardinality(documents) = 1
    /\ GetDocumentOn(Db, ret.args[1].path) = ret.args[1]
    /\ \E w \in Writers :
          /\ InTransaction(w)
          /\ conn[w].doc.path = ret.args[1].path
          /\ conn[w].doc # ret.args[1]

\* The step ends the upsert_document call of caller c, whose statement had
\* written its row inside the transaction.
UpsertEnds(c) == InTransaction(c) /\ conn'[c] = Closed

\* The step is an upsert_document call raising.
UpsertRaises ==
    /\ ret'.op = "upsert_document"
    /\ ret'.raised # ""
    /\ ret' # ret \/ \E c \in Writers : UpsertEnds(c)

\* C23: an upsert_document call that raises leaves the document rows, the
\* index entries and the id counter exactly as they were and no transaction
\* of the call open; and a call whose statement had written its row ends
\* either raising so, or with the whole transaction (rows and index
\* entries) committed: it never ends silently with less.
C23_FailedUpsertCommitsNothing ==
    [][/\ UpsertRaises =>
            /\ UNCHANGED <<documents, documents_fts, sqlite_sequence>>
            /\ \A c \in Writers : conn'[c] # conn[c] => conn'[c] = Closed
       /\ \A c \in Writers :
            UpsertEnds(c) =>
              /\ ret'.op = "upsert_document"
              /\ ret'.args = <<conn[c].doc>>
              /\ IF ret'.raised = "" THEN DbNext = conn[c].tx
                 ELSE UNCHANGED <<documents, documents_fts, sqlite_sequence>>]_vars

\* The upsert of a path that has no record raised after its row was written
\* in the transaction, and the store, which holds another document, has no
\* record of that path.
C23_Witness ==
    /\ ret.op = "upsert_document"
    /\ ret.raised = DatabaseError
    /\ documents # {}
    /\ RowsOf(documents, ret.args[1].path) = {}
    /\ \A w \in Writers : ~InTransaction(w)

-----------------------------------------------------------------------------
(* DocumentParser: paths.  A path is the sequence of its segments          *)
(* (Path.parts), each segment a text.                                      *)

RECURSIVE JoinWith(_, _)
\* sep.join(parts)
JoinWith(parts, sep) ==
    IF parts = <<>> THEN <<>>
    ELSE IF Len(parts) = 1 THEN parts[1]
    ELSE parts[1] \o sep \o JoinWith(Tail(parts), sep)

\* str(path)
PathStr(parts) == JoinWith(parts, <<"/">>)

StartsWith(s, pre) == Len(s) >= Len(pre) /\ SubSeq(s, 1, Len(pre)) = pre

\* Variant: a relative_to that accepts every path.
IsRelativeTo_any(path, base) == TRUE

\* file_path.relative_to(base_path): the segments after the base, or
\* ValueError when base_path is not a prefix of file_path.
IsRelativeTo(path, base) == StartsWith(path, base)

RelativeTo(path, base) == SubSeq(path, Len(base) + 1, Len(path))

\* Path.stem: the last segment without its last suffix; a dot that leads or
\* ends the name starts no suffix.
Stem(name) ==
    LET dots == {i \in 1..Len(name) : name[i] = "."} IN
    IF dots = {} THEN name
    ELSE LET i == MaxOf(dots) IN
         IF i > 1 /\ i < Len(name) THEN SubSeq(name, 1, i - 1) ELSE name

\* str.replace(old, new) for one-character old and new.
ReplaceChar(s, old, new) ==
    [i \in 1..Len(s) |-> IF s[i] = old THEN new ELSE s[i]]

IsCased(c) == c \in LowerSet \/ c \in UpperSet

\* str.title(): a cased character is upper-cased after an uncased one (or
\* at the start) and lower-cased after a cased one.
TitleCase(s) ==
    [i \in 1..Len(s) |->
        IF ~IsCased(s[i]) THEN s[i]
        ELSE IF i > 1 /\ IsCased(s[i - 1]) THEN ToLower(s[i]) ELSE ToUpper(s[i])]

Source == <<"s","o","u","r","c","e">>

\* Variant: a section that never looks for the 'source' prefix.
_extract_section_without_alias(parts) ==
    IF Len(parts) > 1 THEN parts[1] ELSE <<"r","o","o","t">>

\* DocumentParser._extract_section; parts[0] of an empty path is an
\* IndexError.
_extract_section(parts) ==
    IF parts[1] = Source /\ Len(parts) > 1 THEN parts[2]
    ELSE IF Len(parts) > 1 THEN parts[1] ELSE <<"r","o","o","t">>

CLOUDCUSTODIAN_DOCS_BASE_URL ==
    <<"h","t","t","p","s",":","/","/">>
    \o <<"c","l","o","u","d","c","u","s","t","o","d","i","a","n">>
    \o <<".","i","o","/","d","o","c","s">>

\* re.sub(r"\.(rst|rest)$", ".html", path_str)
HtmlSuffix(path_str) ==
    LET rst == <<".","r","s","t">>
        rest == <<".","r","e","s","t">>
        n == Len(path_str) IN
    IF n >= 4 /\ SubSeq(path_str, n - 3, n) = rst
    THEN SubSeq(path_str, 1, n - 4) \o <<".","h","t","m","l">>
    ELSE IF n >= 5 /\ SubSeq(path_str, n - 4, n) = rest
    THEN SubSeq(path_str, 1, n - 5) \o <<".","h","t","m","l">>
    ELSE path_str

\* DocumentParser._compute_url
_compute_url(parts) ==
    LET path_str == PathStr(parts)
        prefix == Source \o <<"/">>
        cut == IF StartsWith(path_str, prefix)
               THEN SubSeq(path_str, 8, Len(path_str))
               ELSE path_str IN
    CLOUDCUSTODIAN_DOCS_BASE_URL \o <<"/">> \o HtmlSuffix(cut)

-----------------------------------------------------------------------------
(* DocumentParser: the document tree and the two visitors.  A doctree is   *)
(* the sequence of its nodes in document order, each with its depth below  *)
(* the document node: the order in which Node.walk visits them.            *)

\* Which node classes the children of a node class are drawn from.
Children ==
    [document      |-> {"section", "paragraph", "literal_block", "comment"},
     section       |-> {"title", "paragraph", "literal_block", "comment"},
     title         |-> {"Text"},
     paragraph     |-> {"Text", "emphasis"},
     literal_block |-> {"Text", "emphasis"},
     comment       |-> {"Text"},
     emphasis      |-> {"Text"},
     Text          |-> {}]

\* The texts of Text nodes: a word, white space alone, a word in white
\* space.
Texts == {<<"a">>, <<" ">>, <<" ","b","\n">>}

DocumentNode == [kind |-> "document", depth |-> 0, text |-> <<>>]

NodesOf(kind, depth) ==
    IF kind = "Text"
    THEN {[kind |-> kind, depth |-> depth, text |-> t] : t \in Texts}
    ELSE {[kind |-> kind, depth |-> depth, text |-> <<>>]}

\* The node that a new node of depth d would be a child of.
OpenAt(tree, d) ==
    tree[MaxOf({j \in 1..Len(tree) : tree[j].depth = d - 1})]

\* The nodes that a doctree of at most n nodes below the document node is
\* made of.
AllNodes(children, n) ==
    UNION {NodesOf(k, d) : k \in DOMAIN children \ {"document"}, d \in 1..n}

\* Whether node nd can follow the nodes of tree in document order: it is a
\* child of the last node or of one of its ancestors, of a class that its
\* parent takes.
Fits(children, tree, nd) ==
    /\ nd.depth <= tree[Len(tree)].depth + 1
    /\ nd.kind \in children[OpenAt(tree, nd.depth).kind]

RECURSIVE DoctreesOver(_, _)
\* The doctrees of at most n nodes below the document node, over the given
\* node classes.
DoctreesOver(children, n) ==
    IF n = 0 THEN {<<DocumentNode>>}
    ELSE LET smaller == DoctreesOver(children, n - 1)
             nodes == AllNodes(children, n) IN
         smaller \cup {Append(p[1], p[2]) :
                         p \in {q \in smaller \X nodes :
                                  Fits(children, q[1], q[2])}}

\* The doctrees of at most n nodes below the document node.
DoctreesOf(n) == DoctreesOver(Children, n)

\* The index after the subtree of node i.
SubtreeEnd(tree, i) ==
    LET after == {j \in (i + 1)..Len(tree) : tree[j].depth <= tree[i].depth} IN
    IF after = {} THEN Len(tree) + 1
    ELSE CHOOSE j \in after : \A k \in after : j <= k

RECURSIVE TextFrom(_, _, _)
\* The texts of the Text nodes i..j-1, concatenated.
TextFrom(tree, i, j) ==
    IF i >= j THEN <<>>
    ELSE (IF tree[i].kind = "Text" THEN tree[i].text ELSE <<>>)
         \o TextFrom(tree, i + 1, j)

\* node.astext() of a text element: the text of its descendants.
Astext(tree, i) == TextFrom(tree, i, SubtreeEnd(tree, i))

IsWhitespace(c) == c \in {" ", "\n", "\t"}

RECURSIVE LStrip(_)
LStrip(s) ==
    IF s # <<>> /\ IsWhitespace(Head(s)) THEN LStrip(Tail(s)) ELSE s

RECURSIVE RStrip(_)
RStrip(s) ==
    IF s # <<>> /\ IsWhitespace(s[Len(s)])
    THEN RStrip(SubSeq(s, 1, Len(s) - 1)) ELSE s

\* str.strip()
Strip(s) == RStrip(LStrip(s))

\* Variant: a visitor that walks into literal blocks.
TextSkips_comments_only(kind) == kind = "comment"

\* The node classes whose visit method of TextContentVisitor raises
\* SkipNode.
TextSkips(kind) == kind \in {"literal_block", "comment"}

RECURSIVE TextContentVisitor(_, _, _)
\* doctree.walk(visitor) from node i on, for a TextContentVisitor with
\* _text_parts = parts (_skip_depth stays 0): the _text_parts at the end.
\* walk calls the visit method of each node and, unless it raised SkipNode,
\* walks the children.
TextContentVisitor(tree, i, parts) ==
    IF i > Len(tree) THEN parts
    ELSE IF TextSkips(tree[i].kind)
    THEN TextContentVisitor(tree, SubtreeEnd(tree, i), parts)
    ELSE IF tree[i].kind = "Text"
    THEN LET text == Strip(tree[i].text) IN
         TextContentVisitor(tree, i + 1,
                            IF text # <<>> THEN Append(parts, text) ELSE parts)
    ELSE TextContentVisitor(tree, i + 1, parts)

\* TextContentVisitor.get_text after the walk.
_extract_text_content(doctree) ==
    JoinWith(TextContentVisitor(doctree, 1, <<>>), <<" ">>)

RECURSIVE MetadataVisitor(_, _, _)
\* doctree.walk(visitor) from node i on, for a MetadataVisitor in state v
\* = [title, description, _in_docinfo] (None written NULL): the state at the
\* end.  walk calls the visit methods only, never the depart methods.
MetadataVisitor(tree, i, v) ==
    IF i > Len(tree) THEN v
    ELSE LET kind == tree[i].kind
             w == CASE kind = "title" /\ v.title = NULL ->
                          [v EXCEPT !.title = Astext(tree, i)]
                    [] kind = "paragraph" /\ v.description = NULL
                         /\ ~v._in_docinfo ->
                          [v EXCEPT !.description = Astext(tree, i)]
                    [] kind = "docinfo" -> [v EXCEPT !._in_docinfo = TRUE]
                    [] OTHER -> v
         IN MetadataVisitor(tree, i + 1, w)

\* 'if not title': None and the empty text are falsy.
TitleMissing(title) == title = NULL \/ title = <<>>

\* Variant: a fallback title without title-casing.
FallbackTitle_as_written(name) ==
    ReplaceChar(ReplaceChar(Stem(name), "-", " "), "_", " ")

\* file_path.stem.replace("-", " ").replace("_", " ").title()
FallbackTitle(name) ==
    TitleCase(ReplaceChar(ReplaceChar(Stem(name), "-", " "), "_", " "))

\* DocumentParser._extract_metadata: DocumentMetadata(title, description).
_extract_metadata(doctree, file_path) ==
    LET visitor == MetadataVisitor(doctree, 1,
                       [title |-> NULL, description |-> NULL,
                        _in_docinfo |-> FALSE]) IN
    [title |-> IF TitleMissing(visitor.title)
               THEN FallbackTitle(file_path[Len(file_path)])
               ELSE visitor.title,
     description |-> visitor.description]

RECURSIVE CollapseWhitespace(_)
\* re.sub(r"\s+", " ", content)
CollapseWhitespace(s) ==
    IF s = <<>> THEN <<>>
    ELSE IF IsWhitespace(Head(s))
    THEN <<" ">> \o CollapseWhitespace(LStrip(s))
    ELSE <<Head(s)>> \o CollapseWhitespace(Tail(s))

\* DocumentParser._clean_content.  The directive, role and comment patterns
\* each need a '.' or a backquote, which no text of Texts holds, so on
\* these texts the first three substitutions find nothing to replace.
_clean_content(content) == Strip(CollapseWhitespace(content))

-----------------------------------------------------------------------------
(* DocumentParser.parse_file, and the files it is given.                   *)

MaxNodes == 4
MaxSegments == 3

\* base_path, and the segments that file paths below it are made of.
BasePath == <<<<"d","o","c","s">>>>
Segments ==
    {Source, <<"a","w","s">>, <<"m","y","-","t","_","f",".","r","s","t">>}

RECURSIVE PathsOf(_)
\* The relative paths of 1..n segments.
PathsOf(n) ==
    IF n = 1 THEN {<<g>> : g \in Segments}
    ELSE LET shorter == PathsOf(n - 1) IN
         shorter \cup {Append(p, g) : p \in shorter, g \in Segments}

\* The file paths: below base_path, and one outside it.
FilePaths ==
    {BasePath \o p : p \in PathsOf(MaxSegments)}
    \cup {<<<<"t","m","p">>, <<"x",".","r","s","t">>>>}

\* What reading and parsing a file gives: read_text raises (bytes that are
\* not UTF-8), the parser raises (a system message at halt level), or a
\* doctree.
Unreadable == [read |-> "UnicodeDecodeError", parse |-> "", doctree |-> <<>>]
Unparsable == [read |-> "", parse |-> "SystemMessage", doctree |-> <<>>]
Parsed(tree) == [read |-> "", parse |-> "", doctree |-> tree]

ContentsOf(n) == {Unreadable, Unparsable} \cup {Parsed(t) : t \in DoctreesOf(n)}

\* The files: every content of at most n nodes at one path, and the
\* contents of at most n - 3 nodes at every path.
Files(n) ==
    {[path |-> BasePath \o <<<<"e","m","p","t","y",".","r","s","t">>>>,
      content |-> c] : c \in ContentsOf(n)}
    \cup {[path |-> p, content |-> c] :
            p \in FilePaths, c \in ContentsOf(n - 3)}

\* What DocumentParser.parse_file(file_path, base_path) returns: every
\* exception raised inside the try block ends in 'return None'.
ParseFile(f, base_path) ==
    IF \/ f.content.read # ""
       \/ f.content.parse # ""
       \/ ~IsRelativeTo(f.path, base_path)
       \/ RelativeTo(f.path, base_path) = <<>>
    THEN PyNone
    ELSE LET doctree == f.content.doctree
             metadata == _extract_metadata(doctree, f.path)
             relative_path == RelativeTo(f.path, base_path) IN
         [path |-> PathStr(relative_path),
          title |-> metadata.title,
          description |-> metadata.description,
          section |-> _extract_section(relative_path),
          content |-> _clean_content(_extract_text_content(doctree)),
          url |-> _compute_url(relative_path)]

InitParse ==
    /\ file \in Files(MaxNodes)
    /\ documents = {}
    /\ documents_fts = EmptyFts
    /\ sqlite_sequence = 0
    /\ clock = 0
    /\ ret = NoCall
    /\ conn = [c \in Callers |-> Closed]
    /\ query = <<>>
    /\ indexer = Idle

parse_file ==
    /\ ret' = [op |-> "parse_file", args |-> <<file.path, BasePath>>,
               raised |-> "", val |-> ParseFile(file, BasePath)]
    /\ UNCHANGED <<documents, documents_fts, sqlite_sequence, clock, conn, query,
                   file, indexer>>

\* _extract_text_content on the doctree of a file that parsed.
extract_text_content ==
    /\ file.content = Parsed(file.content.doctree)
    /\ ret' = [op |-> "_extract_text_content", args |-> <<file.content.doctree>>,
               raised |-> "", val |-> _extract_text_content(file.content.doctree)]
    /\ UNCHANGED <<documents, documents_fts, sqlite_sequence, clock, conn, query,
                   file, indexer>>

\* _extract_section on the relative path of a file below base_path.
extract_section ==
    /\ IsRelativeTo(file.path, BasePath)
    /\ LET relative_path == RelativeTo(file.path, BasePath) IN
       ret' = [op |-> "_extract_section", args |-> <<relative_path>>,
               raised |-> "", val |-> _extract_section(relative_path)]
    /\ UNCHANGED <<documents, documents_fts, sqlite_sequence, clock, conn, query,
                   file, indexer>>

NextParse ==
    \/ parse_file
    \/ extract_text_content
    \/ extract_section

SpecParse == InitParse /\ [][NextParse]_vars

-----------------------------------------------------------------------------
(* Properties of the parser.                                               *)

\* The recorded call is parse_file, and it returned a Document.
ParsedDocument == ret.op = "parse_file" /\ ret.val # PyNone

\* The file cannot be read, cannot be parsed, or is not below base_path.
ExtractionFails(f) ==
    \/ f.content.read # ""
    \/ f.content.parse # ""
    \/ \E i \in 1..Len(BasePath) : i > Len(f.path) \/ f.path[i] # BasePath[i]

(* C17: parse_file never raises: when the file cannot be read or parsed,   *)
(* or its path is not under the base path, it returns None; otherwise it   *)
(* returns a Document, of the file's relative path.                        *)
C17_ParseFileNeverRaises ==
    ret.op = "parse_file"
    => /\ ret.raised = ""
       /\ ExtractionFails(file) <=> ret.val = PyNone
       /\ ~ExtractionFails(file)
          => /\ DOMAIN ret.val =
                  {"path", "title", "description", "section", "content", "url"}
             /\ PathStr(BasePath) \o <<"/">> \o ret.val.path = PathStr(file.path)

\* parse_file returned None for a file that reads and parses but lies
\* outside base_path.
C17_Witness ==
    /\ ret.op = "parse_file"
    /\ ret.val = PyNone
    /\ file.content.read = ""
    /\ file.content.parse = ""
    /\ Len(file.content.doctree) > 1

\* The title nodes of a doctree, by index.
TitleNodes(tree) == {i \in 1..Len(tree) : tree[i].kind = "title"}

\* The text of the first title node.
FirstTitleText(tree) ==
    LET i == CHOOSE x \in TitleNodes(tree) : \A y \in TitleNodes(tree) : x <= y IN
    Astext(tree, i)

\* t is the stem of the file name with '-' and '_' turned into spaces and
\* every word capitalised.
IsFileNameTitle(t, name) ==
    LET stem == Stem(name) IN
    /\ Len(t) = Len(stem)
    /\ \A i \in 1..Len(stem) :
          IF stem[i] \in {"-", "_"} THEN t[i] = " "
          ELSE IF ~IsCased(stem[i]) THEN t[i] = stem[i]
          ELSE IF i = 1 \/ ~IsCased(stem[i - 1])
          THEN t[i] = ToUpper(stem[i])
          ELSE t[i] = ToLower(stem[i])

(* C18 as stated: the title of every Document that parse_file returns is   *)
(* the text of the first title node if one exists, otherwise the title     *)
(* made from the file name.                                                *)
C18_TitleOfFirstTitleNode ==
    ParsedDocument
    => LET tree == file.content.doctree IN
       IF TitleNodes(tree) # {}
       THEN ret.val.title = FirstTitleText(tree)
       ELSE IsFileNameTitle(ret.val.title, file.path[Len(file.path)])

(* C18: every Document that parse_file returns has a non-empty title: the  *)
(* text of the first title node if one exists and its text is not empty,   *)
(* otherwise (no title node, or a first title node without text) the file  *)
(* name stem with every '-' and '_' replaced by a space, title-cased.      *)
C18_TitleNonEmpty ==
    ParsedDocument
    => LET tree == file.content.doctree IN
       /\ ret.val.title # <<>>
       /\ IF TitleNodes(tree) # {} /\ FirstTitleText(tree) # <<>>
          THEN ret.val.title = FirstTitleText(tree)
          ELSE IsFileNameTitle(ret.val.title, file.path[Len(file.path)])

\* A file without a title node, named with '-' and '_', got the title made
\* from its name.
C18_Witness ==
    /\ ParsedDocument
    /\ TitleNodes(file.content.doctree) = {}
    /\ file.path[Len(file.path)] = <<"m","y","-","t","_","f",".","r","s","t">>
    /\ ret.val.title = <<"M","y"," ","T"," ","F">>

\* Node i is a literal block or comment, or lies inside one.
InSkipped(tree, i) ==
    \E j \in 1..i :
       /\ tree[j].kind \in {"literal_block", "comment"}
       /\ j = i \/ (/\ tree[j].depth < tree[i].depth
                    /\ \A k \in (j + 1)..i : tree[k].depth > tree[j].depth)

\* Node i is a text node that contributes to the extracted text.
Contributes(tree, i) ==
    /\ tree[i].kind = "Text"
    /\ ~InSkipped(tree, i)
    /\ \E k \in 1..Len(tree[i].text) : ~IsWhitespace(tree[i].text[k])

RECURSIVE ContributionsUpTo(_, _)
\* The trimmed texts of the contributing nodes 1..n, in document order.
ContributionsUpTo(tree, n) ==
    IF n = 0 THEN <<>>
    ELSE ContributionsUpTo(tree, n - 1)
         \o (IF Contributes(tree, n) THEN <<Strip(tree[n].text)>> ELSE <<>>)

(* C19: the text that the text extractor produces is the trimmed texts of  *)
(* the text nodes that are not empty after trimming and lie in no literal  *)
(* block and no comment, in document order, none dropped or moved, joined  *)
(* by single spaces; nothing of a literal block or comment, or of their    *)
(* descendants, is collected.                                              *)
C19_TextSkipsCodeAndComments ==
    ret.op = "_extract_text_content"
    => LET tree == ret.args[1] IN
       ret.val = JoinWith(ContributionsUpTo(tree, Len(tree)), <<" ">>)

\* Text was extracted from a doctree that also has a word inside a literal
\* block.
C19_Witness ==
    /\ ret.op = "_extract_text_content"
    /\ ret.val = <<"b">>
    /\ LET tree == ret.args[1] IN
       \E i \in 1..Len(tree), j \in 1..Len(tree) :
          /\ tree[j].kind = "literal_block"
          /\ tree[i].kind = "Text"
          /\ tree[i].text = <<"a">>
          /\ InSkipped(tree, i)
          /\ j < i

-----------------------------------------------------------------------------
(* MetadataVisitor over doctrees that hold a docinfo block.  docutils     *)
(* builds a docinfo node from the bibliographic field list that opens a    *)
(* document; its fields hold their paragraphs in a field_body.  The field  *)
(* and field_name nodes, which the visitor passes over, are left out.      *)

MaxMetaNodes == 6

\* Which node classes the children of a node class are drawn from.
MetaChildren ==
    [document   |-> {"docinfo", "paragraph"},
     docinfo    |-> {"field_body"},
     field_body |-> {"paragraph"},
     paragraph  |-> {"Text"},
     Text       |-> {}]

\* The doctrees of at most n nodes handed to _extract_metadata, with the
\* file they are of.
MetaFiles(n) ==
    {[path |-> BasePath \o <<<<"x",".","r","s","t">>>>, content |-> Parsed(t)]
       : t \in DoctreesOver(MetaChildren, n)}

InitMeta ==
    /\ conn = [c \in Callers |-> Closed]
    /\ documents = {}
    /\ documents_fts = EmptyFts
    /\ sqlite_sequence = 0
    /\ clock = 0
    /\ ret = NoCall
    /\ query = <<>>
    /\ indexer = Idle
    /\ file \in MetaFiles(MaxMetaNodes)

\* metadata = self._extract_metadata(doctree, file_path)
extract_metadata ==
    /\ ret' = [op |-> "_extract_metadata", args |-> <<file>>, raised |-> "",
               val |-> _extract_metadata(file.content.doctree, file.path)]
    /\ UNCHANGED <<documents, documents_fts, sqlite_sequence, clock, conn,
                   query, file, indexer>>

NextMeta == extract_metadata

SpecMeta == InitMeta /\ [][NextMeta]_vars

\* Whether node i lies inside a docinfo block.
InDocinfo(tree, i) ==
    \E j \in 1..(i - 1) :
        tree[j].kind = "docinfo" /\ i < SubtreeEnd(tree, j)

\* The paragraphs outside every docinfo block, by their place in document
\* order.
FreeParagraphs(tree) ==
    {i \in 1..Len(tree) : tree[i].kind = "paragraph" /\ ~InDocinfo(tree, i)}

\* The least of a set of places.
First(S) == CHOOSE i \in S : \A k \in S : i <= k

\* The traversal is over: _extract_metadata returned.
MetadataReturned == ret.op = "_extract_metadata"

DescriptionBeforeDocinfo ==
    MetadataReturned =>
        LET tree == file.content.doctree
            early == {i \in FreeParagraphs(tree) :
                        \A j \in 1..(i - 1) : tree[j].kind # "docinfo"} IN
        ret.val.description =
            IF early = {} THEN NULL ELSE Astext(tree, First(early))

\* A paragraph inside a docinfo block is never the description.
DocinfoParagraphNeverDescription ==
    MetadataReturned =>
        LET tree == file.content.doctree IN
        (\E i \in 1..Len(tree) : tree[i].kind = "docinfo") =>
          \/ ret.val.description = NULL
          \/ \E i \in FreeParagraphs(tree) :
                ret.val.description = Astext(tree, i)

-----------------------------------------------------------------------------
(* CloudCustodianDocsIndexer: index_from_path, rebuild_index and the loop  *)
(* of _index_directory, one file per step, with a reader of the store at   *)
(* any moment.                                                             *)

MaxFiles == 2
MaxRuns == 2

\* The files a documentation directory can hold, the *.rst files before the
\* *.rest file as rst_files lists them: a page with a title and a
\* paragraph, another version of that page, a page without a title, and a
\* file that is not UTF-8.
RepoFiles ==
    <<[path |-> BasePath \o <<<<"a","w","s">>, <<"x",".","r","s","t">>>>,
       content |-> Parsed(<<DocumentNode,
                            [kind |-> "section", depth |-> 1, text |-> <<>>],
                            [kind |-> "title", depth |-> 2, text |-> <<>>],
                            [kind |-> "Text", depth |-> 3, text |-> <<"a">>],
                            [kind |-> "paragraph", depth |-> 2, text |-> <<>>],
                            [kind |-> "Text", depth |-> 3,
                             text |-> <<" ","b","\n">>]>>)],
      [path |-> BasePath \o <<<<"a","w","s">>, <<"x",".","r","s","t">>>>,
       content |-> Parsed(<<DocumentNode,
                            [kind |-> "paragraph", depth |-> 1, text |-> <<>>],
                            [kind |-> "Text", depth |-> 2, text |-> <<"b">>]>>)],
      [path |-> BasePath \o <<<<"m","y","-","t","_","f",".","r","s","t">>>>,
       content |-> Parsed(<<DocumentNode,
                            [kind |-> "paragraph", depth |-> 1, text |-> <<>>],
                            [kind |-> "Text", depth |-> 2, text |-> <<"a">>]>>)],
      [path |-> BasePath \o <<<<"x",".","r","e","s","t">>>>,
       content |-> Unreadable]>>

RECURSIVE ListOf(_)
\* The files with the given indices, in the order of RepoFiles.
ListOf(S) ==
    IF S = {} THEN <<>>
    ELSE LET i == CHOOSE x \in S : \A y \in S : x <= y IN
         <<RepoFiles[i]>> \o ListOf(S \ {i})

\* rst_files: what rglob finds in a directory, no path twice.
Directories ==
    {ListOf(S) : S \in {T \in SUBSET (1..Len(RepoFiles)) :
                          /\ Cardinality(T) <= MaxFiles
                          /\ \A i \in T, j \in T :
                                i # j => RepoFiles[i].path # RepoFiles[j].path}}

StoredPaths == {r.path : r \in documents}

\* index_from_path(docs_path) up to the loop of _index_directory:
\* docs_path exists and rst_files is listed.
index_from_path(rst_files) ==
    /\ indexer.pc = "idle"
    /\ indexer.runs < MaxRuns
    /\ indexer' = [pc |-> "indexing", op |-> "index_from_path",
                   runs |-> indexer.runs + 1, run |-> rst_files,
                   rest |-> rst_files, indexed_count |-> 0,
                   before |-> StoredPaths]
    /\ UNCHANGED <<documents, documents_fts, sqlite_sequence, clock, ret, conn,
                   query, file>>

\* Variant of the loop body that counts a file whether or not it parsed.
index_file_counting_skipped ==
    /\ indexer.pc = "indexing"
    /\ indexer.rest # <<>>
    /\ LET document == ParseFile(Head(indexer.rest), BasePath) IN
       IF document # PyNone
       THEN LET db == UpsertStatement(Db, document, clock) IN
            /\ documents' = db.documents
            /\ documents_fts' = db.documents_fts
            /\ sqlite_sequence' = db.sqlite_sequence
       ELSE UNCHANGED <<documents, documents_fts, sqlite_sequence>>
    /\ indexer' = [indexer EXCEPT !.rest = Tail(indexer.rest),
                                  !.indexed_count = @ + 1]
    /\ UNCHANGED <<clock, ret, conn, query, file>>

\* One iteration of 'for file_path in rst_files': parse_file, and
\* upsert_document and the count when it returned a Document.
index_file ==
    /\ indexer.pc = "indexing"
    /\ indexer.rest # <<>>
    /\ LET document == ParseFile(Head(indexer.rest), BasePath) IN
       IF document # PyNone
       THEN LET db == UpsertStatement(Db, document, clock) IN
            /\ documents' = db.documents
            /\ documents_fts' = db.documents_fts
            /\ sqlite_sequence' = db.sqlite_sequence
            /\ indexer' = [indexer EXCEPT !.rest = Tail(indexer.rest),
                                          !.indexed_count = @ + 1]
       ELSE /\ indexer' = [indexer EXCEPT !.rest = Tail(indexer.rest)]
            /\ UNCHANGED <<documents, documents_fts, sqlite_sequence>>
    /\ UNCHANGED <<clock, ret, conn, query, file>>

\* An iteration whose upsert_document raises (the database file is locked
\* or cannot be written): nothing in _index_directory, index_from_path or
\* rebuild_index catches it, and the documents committed by the earlier
\* iterations stay.
index_file_raises ==
    /\ indexer.pc = "indexing"
    /\ indexer.rest # <<>>
    /\ ParseFile(Head(indexer.rest), BasePath) # PyNone
    /\ ret' = [op |-> indexer.op, args |-> <<indexer.run>>,
               raised |-> "OperationalError", val |-> PyNone]
    /\ indexer' = [indexer EXCEPT !.pc = "idle"]
    /\ UNCHANGED <<documents, documents_fts, sqlite_sequence, clock, conn, query,
                   file>>

\* 'return indexed_count', handed on by index_from_path or rebuild_index.
index_return ==
    /\ indexer.pc = "indexing"
    /\ indexer.rest = <<>>
    /\ ret' = [op |-> indexer.op, args |-> <<indexer.run>>, raised |-> "",
               val |-> indexer.indexed_count]
    /\ indexer' = [indexer EXCEPT !.pc = "idle"]
    /\ UNCHANGED <<documents, documents_fts, sqlite_sequence, clock, conn, query,
                   file>>

\* Variant: a rebuild that goes on to the clone without clearing.
rebuild_index_without_clear ==
    /\ indexer.pc = "idle"
    /\ indexer.runs < MaxRuns
    /\ indexer' = [pc |-> "cleared", op |-> "rebuild_index",
                   runs |-> indexer.runs + 1, run |-> <<>>, rest |-> <<>>,
                   indexed_count |-> 0, before |-> StoredPaths]
    /\ UNCHANGED <<documents, documents_fts, sqlite_sequence, clock, ret, conn,
                   query, file>>

\* rebuild_index: self.database.clear(), committed before anything else.
rebuild_index ==
    /\ indexer.pc = "idle"
    /\ indexer.runs < MaxRuns
    /\ LET db == DeleteStatement(Db) IN
       /\ documents' = db.documents
       /\ documents_fts' = db.documents_fts
       /\ sqlite_sequence' = db.sqlite_sequence
    /\ indexer' = [pc |-> "cleared", op |-> "rebuild_index",
                   runs |-> indexer.runs + 1, run |-> <<>>, rest |-> <<>>,
                   indexed_count |-> 0, before |-> StoredPaths]
    /\ UNCHANGED <<clock, ret, conn, query, file>>

\* index_from_git: _clone_repository succeeded, docs/source exists and
\* rst_files is listed.
clone_repository(rst_files) ==
    /\ indexer.pc = "cleared"
    /\ indexer' = [indexer EXCEPT !.pc = "indexing", !.run = rst_files,
                                  !.rest = rst_files]
    /\ UNCHANGED <<documents, documents_fts, sqlite_sequence, clock, ret, conn,
                   query, file>>

\* index_from_git fails: git exits with an error (CalledProcessError), or
\* the clone has no docs/source (ValueError).  Nothing catches it.
acquisition_fails(error) ==
    /\ indexer.pc = "cleared"
    /\ ret' = [op |-> "rebuild_index", args |-> <<>>, raised |-> error,
               val |-> PyNone]
    /\ indexer' = [indexer EXCEPT !.pc = "idle"]
    /\ UNCHANGED <<documents, documents_fts, sqlite_sequence, clock, conn, query,
                   file>>

NextIndex ==
    \/ \E rst_files \in Directories : index_from_path(rst_files)
    \/ index_file
    \/ index_file_raises
    \/ index_return
    \/ rebuild_index
    \/ \E rst_files \in Directories : clone_repository(rst_files)
    \/ \E error \in {"CalledProcessError", "ValueError"} : acquisition_fails(error)
    \/ get_document_count

SpecIndex == Init /\ [][NextIndex]_vars

-----------------------------------------------------------------------------
(* Properties of the indexer.                                              *)

\* The files of a run that parse_file turns into a Document.
Parsable(run) == {i \in 1..Len(run) : ParseFile(run[i], BasePath) # PyNone}

\* A step of the loop that goes on to the next file.
LoopStep ==
    /\ indexer.pc = "indexing"
    /\ indexer'.pc = "indexing"
    /\ indexer' # indexer

\* The step in which a run returns its count.
ReturnStep ==
    /\ indexer.pc = "indexing"
    /\ indexer'.pc = "idle"
    /\ ret'.raised = ""

\* Whether _index_directory started on an empty store: under
\* rebuild_index always, under index_from_path when nothing was stored.
StartedEmpty == indexer.op = "rebuild_index" \/ indexer.before = {}

\* C21: every iteration of _index_directory takes the next file; a file
\* that parse_file returns None for leaves the store and the count as they
\* were and the loop goes on, every other file is upserted and counted;
\* the run ends only when no file is left, the number returned is the
\* number of files upserted, and it is the number of stored documents when
\* the run started on an empty store.
C21_SkipsFailuresAndCountsUpserts ==
    [][/\ LoopStep =>
            /\ indexer.rest # <<>>
            /\ indexer'.rest = Tail(indexer.rest)
            /\ LET document == ParseFile(Head(indexer.rest), BasePath) IN
               IF document = PyNone
               THEN /\ UNCHANGED <<documents, documents_fts, sqlite_sequence>>
                    /\ indexer'.indexed_count = indexer.indexed_count
               ELSE /\ GetDocumentOn(DbNext, document.path) = document
                    /\ indexer'.indexed_count = indexer.indexed_count + 1
       /\ ReturnStep =>
            /\ indexer.rest = <<>>
            /\ ret'.val = Cardinality(Parsable(indexer.run))
            /\ StartedEmpty => CountOn(DbNext) = ret'.val]_vars

\* A run over two files, one of them unreadable, returned 1 and left one
\* document in a store that was empty before.
C21_Witness ==
    /\ ret.op = "index_from_path"
    /\ ret.raised = ""
    /\ Len(ret.args[1]) = 2
    /\ \E i \in 1..2 : ret.args[1][i].content = Unreadable
    /\ ret.val = 1
    /\ indexer.pc = "idle"
    /\ indexer.before = {}
    /\ Cardinality(documents) = 1

\* The documents the run has indexed so far: those of the files the loop
\* has been through.
IndexedSoFar ==
    LET done == Len(indexer.run) - Len(indexer.rest) IN
    {ParseFile(indexer.run[i], BasePath) :
       i \in {j \in Parsable(indexer.run) : j <= done}}

\* The step in which a run ends, returning or raising.
RunEnds == indexer.pc \in {"cleared", "indexing"} /\ indexer'.pc = "idle"

\* C25: from the clear of rebuild_index on, through the clone and the
\* loop and after the run has ended, returning or raising, the store holds
\* exactly the documents this run has indexed so far, with their index
\* entries: none before the clone, nothing of an earlier run at any time,
\* all of the run's documents when it returns.  The run returns only when
\* every file has been gone through, with the number of stored documents;
\* otherwise it ends with the error raised.
C25_RebuildClearsFirst ==
    /\ [](indexer.op = "rebuild_index" =>
            /\ {Document(r) : r \in documents} = IndexedSoFar
            /\ documents_fts = IndexOf(documents)
            /\ indexer.pc = "cleared" => documents = {})
    /\ [][(RunEnds /\ indexer.op = "rebuild_index") =>
            /\ ret'.op = "rebuild_index"
            /\ StoreUnchanged
            /\ IF indexer.pc = "indexing" /\ indexer.rest = <<>>
               THEN /\ ret'.raised = ""
                    /\ ret'.val = Cardinality(documents')
               ELSE ret'.raised # ""]_vars

\* A reader counted no documents while a rebuild of a store that held
\* documents had cleared it and not yet indexed any.  (The run that filled
\* the store ended by setting ret, so the count is of a later moment, and
\* until the rebuild began the store held documents.)
C25_Witness ==
    /\ ret.op = "get_document_count"
    /\ ret.val = 0
    /\ indexer.op = "rebuild_index"
    /\ indexer.pc \in {"cleared", "indexing"}
    /\ indexer.before # {}

\* A rebuild of a store that held documents has ended with the clone
\* failing, and the store is empty.
RebuildFailedOnEmptyStore ==
    /\ ret.op = "rebuild_index"
    /\ ret.raised = "CalledProcessError"
    /\ indexer.pc = "idle"
    /\ indexer.before # {}
    /\ documents = {}

\* A rebuild has ended with an upsert failing after one document of the run
\* was stored; a document of the earlier run is gone.
RebuildFailedHalfway ==
    /\ ret.op = "rebuild_index"
    /\ ret.raised = "OperationalError"
    /\ indexer.pc = "idle"
    /\ Cardinality(documents) = 1
    /\ indexer.before \ StoredPaths # {}

=============================================================================
